---- MODULE Spec2Model ----
(***************************************************************************)
(* Model of the consultation report engine of src/app.py: the duration     *)
(* parser, the completeness scorer, the two record filters, the report     *)
(* builder and the aggregation done in main.                               *)
(*                                                                         *)
(* Text is a sequence of one-character strings, so that str(), split(':'), *)
(* int(), strftime and the f-string formats are computed, not assumed.     *)
(* A cell value is a tagged record:                                        *)
(*   [t |-> "nan"]                  a missing cell (NaN / NaT)             *)
(*   [t |-> "none"]                 Python None                            *)
(*   [t |-> "str",  s |-> chars]    a str                                  *)
(*   [t |-> "time", h, m, s]        a datetime.time                        *)
(*   [t |-> "ts",   v |-> n]        a Timestamp, n counted in half days    *)
(*   [t |-> "num",  v |-> n]        a number                               *)
(* Floats are modelled as exact rationals.                                 *)
(***************************************************************************)
EXTENDS Integers, Sequences, FiniteSets, TLC

VARIABLES
    time_input,     \* argument of the last parse_hh_mm_ss call
    parse_result,   \* what that call returned: <<seconds, error>>
    row,            \* argument of calculate_completion_score
    score_result,   \* what that call returned
    df,             \* the caller's dataset: a sequence of records
    filtered_df,    \* main's filtered_df: the rows the last filter returned
    report_df,      \* main's report_df
    avg_time,       \* what calculate_average_consultation_time returned
    stats,          \* the counts and percentages main computes from report_df
    excel,          \* the sheets generate_excel_report wrote
    notes,          \* what main's Notes section shows
    sidebar,        \* the date range the user selected in the sidebar
    session_state,  \* st.session_state: start_date and end_date
    call            \* the last engine call: its name, arguments and input

vars == <<time_input, parse_result, row, score_result, df, filtered_df,
          report_df, avg_time, stats, excel, notes, sidebar, session_state, call>>

\* Python None as a return value; a present value v is <<v>>.
None == <<>>
Some(v) == <<v>>

NaN == [t |-> "nan"]
PyNone == [t |-> "none"]
Str(s) == [t |-> "str", s |-> s]
Time(h, m, s) == [t |-> "time", h |-> h, m |-> m, s |-> s]
Timestamp(v) == [t |-> "ts", v |-> v]
Num(v) == [t |-> "num", v |-> v]

\* pd.isna on a scalar
IsNa(value) == value.t \in {"nan", "none"}

----------------------------------------------------------------------------
(* Text helpers *)

DigitChars == <<"0", "1", "2", "3", "4", "5", "6", "7", "8", "9">>

IsDigit(c) == \E i \in 1..10 : DigitChars[i] = c

DigitVal(c) == (CHOOSE i \in 1..10 : DigitChars[i] = c) - 1

\* str(n) for an integer n >= 0
RECURSIVE NatToStr(_)
NatToStr(n) ==
    IF n < 10 THEN <<DigitChars[n + 1]>>
    ELSE NatToStr(n \div 10) \o <<DigitChars[(n % 10) + 1]>>

\* the format spec :02d (also what %H, %M, %S produce), for n >= 0
Fmt02d(n) == IF n < 10 THEN <<"0">> \o NatToStr(n) ELSE NatToStr(n)

\* time.strftime('%H:%M:%S')
Strftime(tm) == Fmt02d(tm.h) \o <<":">> \o Fmt02d(tm.m) \o <<":">> \o Fmt02d(tm.s)

\* str(value)
PyStr(value) ==
    CASE value.t = "str"  -> value.s
      [] value.t = "time" -> Strftime(value)
      [] value.t = "nan"  -> <<"n", "a", "n">>
      [] value.t = "none" -> <<"N", "o", "n", "e">>
      [] value.t = "num"  -> NatToStr(value.v)

\* s.split(':'): always at least one part
RECURSIVE SplitColon(_)
SplitColon(s) ==
    IF \A i \in 1..Len(s) : s[i] # ":" THEN <<s>>
    ELSE LET k == CHOOSE i \in 1..Len(s) :
                      s[i] = ":" /\ \A j \in 1..(i - 1) : s[j] # ":"
         IN  <<SubSeq(s, 1, k - 1)>> \o SplitColon(SubSeq(s, k + 1, Len(s)))

RECURSIVE DigitsToNat(_)
DigitsToNat(s) ==
    IF s = <<>> THEN 0
    ELSE 10 * DigitsToNat(SubSeq(s, 1, Len(s) - 1)) + DigitVal(s[Len(s)])

AllDigits(s) == Len(s) > 0 /\ \A i \in 1..Len(s) : IsDigit(s[i])

\* int(s) succeeds: an optional sign, then one or more digits
IntOk(s) ==
    \/ AllDigits(s)
    \/ Len(s) > 1 /\ s[1] \in {"-", "+"} /\ AllDigits(Tail(s))

\* int(s), where IntOk(s)
IntOf(s) ==
    IF s[1] = "-" THEN 0 - DigitsToNat(Tail(s))
    ELSE IF s[1] = "+" THEN DigitsToNat(Tail(s))
    ELSE DigitsToNat(s)

----------------------------------------------------------------------------
(* parse_hh_mm_ss *)

\* lines 248-251: the range check and the total
ParseRangeMut(hours, minutes, seconds, time_str) ==
    IF hours < 0 \/ minutes < 0 \/ seconds < 0 \/ minutes > 60 \/ seconds > 60
    THEN <<None, Some(<<"Invalid time values", time_str>>)>>
    ELSE <<Some(hours * 3600 + minutes * 60 + seconds), None>>

ParseRange(hours, minutes, seconds, time_str) ==
    IF hours < 0 \/ minutes < 0 \/ seconds < 0 \/ minutes >= 60 \/ seconds >= 60
    THEN <<None, Some(<<"Invalid time values", time_str>>)>>
    ELSE <<Some(hours * 3600 + minutes * 60 + seconds), None>>

\* lines 239-253: map(int, parts) raises on the first part int() rejects and
\* the except clause turns that into an "Error parsing" result
ParseParts(time_str) ==
    LET parts == SplitColon(time_str)
        bad   == {i \in 1..Len(parts) : ~IntOk(parts[i])}
        first == CHOOSE i \in bad : \A j \in bad : i <= j
    IN  IF Len(parts) \notin {2, 3}
        THEN <<None, Some(<<"Invalid format", time_str>>)>>
        ELSE IF bad # {}
        THEN <<None, Some(<<"Error parsing", time_str, parts[first]>>)>>
        ELSE IF Len(parts) = 2
        THEN ParseRange(0, IntOf(parts[1]), IntOf(parts[2]), time_str)
        ELSE ParseRange(IntOf(parts[1]), IntOf(parts[2]), IntOf(parts[3]), time_str)

\* lines 230-253. The emptiness test is made on str(time_input): pd.isna of a
\* str is False, so only the comparison with '' can succeed.
parse_hh_mm_ss(input) ==
    IF input.t = "time" THEN ParseParts(Strftime(input))
    ELSE LET time_str == PyStr(input)
         IN  IF time_str = <<>> THEN <<None, Some(<<"Empty or NaN">>)>>
             ELSE ParseParts(time_str)

----------------------------------------------------------------------------
(* calculate_completion_score *)

\* row.get(field, default)
Get(r, field, default) == IF field \in DOMAIN r THEN r[field] ELSE default

\* sub in s, for two str
Contains(s, sub) ==
    \E i \in 0..(Len(s) - Len(sub)) : SubSeq(s, i + 1, i + Len(sub)) = sub

AliasMarker == <<"\"", "A", "l", "i", "a", "s", "\"">>

\* line 270
total_fields == 8

\* lines 275-284
fields_to_check ==
    << "PatientName", "Age", "GenderDisplay", "ConsultationCreatedDate",
       "ConsultationStatus", "Symptoms_", "Provisional Diagnosis", "Advice" >>

\* round(num / den, 2), in hundredths; Python rounds a tie to the even digit
Round2(num, den) ==
    LET q == (num * 100) \div den
        r == (num * 100) % den
    IN  IF 2 * r < den THEN q
        ELSE IF 2 * r > den THEN q + 1
        ELSE IF q % 2 = 0 THEN q ELSE q + 1

\* value != '' for a value that is not missing
NotEmptyStr(value) == ~(value.t = "str" /\ value.s = <<>>)

ScoreStepMut(acc, r, field) ==
    LET value == Get(r, field, PyNone)
    IN  IF IsNa(value)
        THEN [acc EXCEPT !.missing_fields = Append(@, field)]
        ELSE IF NotEmptyStr(value)
        THEN [acc EXCEPT !.score = @ + 1, !.filled_fields = Append(@, field)]
        ELSE acc

\* lines 287-298: one turn of the loop over fields_to_check
ScoreStep(acc, r, field) ==
    LET value == Get(r, field, PyNone)
    IN  IF IsNa(value)
        THEN [acc EXCEPT !.missing_fields = Append(@, field)]
        ELSE IF field = "Symptoms_" /\ value.t = "str" /\ Contains(value.s, AliasMarker)
        THEN [acc EXCEPT !.score = @ + 1, !.filled_fields = Append(@, field)]
        ELSE IF NotEmptyStr(value)
        THEN [acc EXCEPT !.score = @ + 1, !.filled_fields = Append(@, field)]
        ELSE [acc EXCEPT !.missing_fields = Append(@, field)]

\* lines 286-298: the loop, over the first n fields
RECURSIVE ScoreLoop(_, _)
ScoreLoop(r, n) ==
    IF n = 0 THEN [score |-> 0, filled_fields |-> <<>>, missing_fields |-> <<>>]
    ELSE ScoreStep(ScoreLoop(r, n - 1), r, fields_to_check[n])

CompletionPercentageMut(score) == Round2(score * 100, 30)

\* line 301, in hundredths of a percent
CompletionPercentage(score) ==
    IF total_fields > 0 THEN Round2(score * 100, total_fields) ELSE 0

\* line 303, in hundredths of a percent
MissingPercentage(score) ==
    IF total_fields > 0 THEN Round2((total_fields - score) * 100, total_fields) ELSE 0

\* lines 268-304; both percentages in hundredths of a percent
calculate_completion_score(r) ==
    LET acc == ScoreLoop(r, Len(fields_to_check))
    IN  [ completion_percentage |-> CompletionPercentage(acc.score),
          filled_fields         |-> acc.filled_fields,
          missing_fields        |-> acc.missing_fields,
          missing_percentage    |-> MissingPercentage(acc.score),
          fields_to_check       |-> fields_to_check ]

----------------------------------------------------------------------------
(* get_time_taken *)

Unknown == <<"U", "n", "k", "n", "o", "w", "n">>

\* lines 256-265
get_time_taken(r) ==
    LET input == Get(r, "HH_MM_SS", Str(Unknown))
    IN  IF IsNa(input) \/ ~NotEmptyStr(input) THEN Unknown
        ELSE IF input.t = "time" THEN Strftime(input)
        ELSE PyStr(input)

----------------------------------------------------------------------------
(* A DataFrame is a sequence of rows [name |-> index label, cells |-> record]; *)
(* read_excel labels the rows 0, 1, 2, ... and a filter keeps the labels.      *)

\* Text of a date as to_datetime reads it: a day number, with a trailing "T"
\* for a time of day in the afternoon. Anything else does not parse.
ParseDateText(s) ==
    IF AllDigits(s) THEN Some(2 * DigitsToNat(s))
    ELSE IF Len(s) > 1 /\ s[Len(s)] = "T" /\ AllDigits(SubSeq(s, 1, Len(s) - 1))
    THEN Some(2 * DigitsToNat(SubSeq(s, 1, Len(s) - 1)) + 1)
    ELSE None

\* pd.to_datetime(value, errors='coerce') on one cell
ToDatetime(value) ==
    CASE value.t = "ts"  -> value
      [] value.t = "str" -> IF ParseDateText(value.s) = None THEN NaN
                            ELSE Timestamp(ParseDateText(value.s)[1])
      [] OTHER           -> NaN

\* Series.dt.date on one cell of a datetime column
DtDate(value) == IF value.t = "ts" THEN Some(value.v \div 2) ELSE None

\* line 333: the assignment to df['ConsultationCreatedDate']
CoerceCreated(frame) ==
    [i \in 1..Len(frame) |->
        [frame[i] EXCEPT !.cells["ConsultationCreatedDate"] = ToDatetime(@)]]

\* line 334: one element of the mask; a comparison with NaT is False
DateMaskMut(value, start_date, end_date) ==
    /\ DtDate(value) # None
    /\ DtDate(value)[1] >= start_date
    /\ DtDate(value)[1] < end_date

DateMask(value, start_date, end_date) ==
    /\ DtDate(value) # None
    /\ DtDate(value)[1] >= start_date
    /\ DtDate(value)[1] <= end_date

\* df[mask]
RECURSIVE SelectRows(_, _)
SelectRows(frame, mask) ==
    IF frame = <<>> THEN <<>>
    ELSE (IF mask[1] THEN <<frame[1]>> ELSE <<>>)
         \o SelectRows(Tail(frame), Tail(mask))

\* lines 331-335: <<the caller's frame after the call, the frame returned>>
filter_by_date_range(frame, start_date, end_date) ==
    LET coerced == CoerceCreated(frame)
        mask    == [i \in 1..Len(coerced) |->
                       DateMask(coerced[i].cells["ConsultationCreatedDate"],
                                start_date, end_date)]
    IN  <<coerced, SelectRows(coerced, mask)>>

----------------------------------------------------------------------------
(* filter_by_patient_search *)

UpperChars == <<"A", "B", "N">>
LowerChars == <<"a", "b", "n">>

\* one character lowered, for case=False
LowerChar(c) ==
    IF \E i \in 1..Len(UpperChars) : UpperChars[i] = c
    THEN LowerChars[CHOOSE i \in 1..Len(UpperChars) : UpperChars[i] = c]
    ELSE c

Lower(s) == [i \in 1..Len(s) |-> LowerChar(s[i])]

\* Series.astype(str) on one cell: a missing cell becomes the text "nan"
\* (pandas before 3.0, the releases the code was written against)
AsTypeStr(value) == PyStr(value)

\* .astype(str).str.contains(query, case=False, na=False) on one cell, for a
\* query without regular-expression metacharacters
CellContains(value, query) == Contains(Lower(AsTypeStr(value)), Lower(query))

\* lines 341-348
filter_by_patient_search(frame, patient_id, patient_name) ==
    LET by_id   == IF patient_id # <<>>
                   THEN SelectRows(frame, [i \in 1..Len(frame) |->
                            CellContains(frame[i].cells["PatientId"], patient_id)])
                   ELSE frame
        by_name == IF patient_name # <<>>
                   THEN SelectRows(by_id, [i \in 1..Len(by_id) |->
                            CellContains(by_id[i].cells["PatientName"], patient_name)])
                   ELSE by_id
    IN  by_name

----------------------------------------------------------------------------
(* generate_consultation_report *)

\* lines 360-377: one report row. CompletionField and MissingFields are kept
\* as the lists that ', '.join is given.
ReportRow(r) ==
    LET s == calculate_completion_score(r)
    IN  [ PatientId         |-> Get(r, "PatientId", Str(Unknown)),
          ConsultationId    |-> Get(r, "ConsultationId", Str(Unknown)),
          CompletionScore   |-> s.completion_percentage,
          CompletionField   |-> s.filled_fields,
          MissingFieldScore |-> s.missing_percentage,
          MissingFields     |-> s.missing_fields,
          TimeTaken         |-> get_time_taken(r),
          Status            |-> Get(r, "ConsultationStatus", Str(Unknown)),
          Symptoms          |-> Get(r, "Symptoms_", Str(<<>>)),
          Diagnosis         |-> Get(r, "Provisional Diagnosis", Str(<<>>)),
          Advice            |-> Get(r, "Advice", Str(<<>>)) ]

\* lines 354-387: None for an empty frame, else one row per record
generate_consultation_report(frame) ==
    IF frame = <<>> THEN None
    ELSE Some([i \in 1..Len(frame) |-> ReportRow(frame[i].cells)])

----------------------------------------------------------------------------
(* calculate_average_consultation_time *)

NoValidEntries == <<"No valid time entries found in HH_MM_SS column.">>

AvgStepMut(acc, r) ==
    LET parsed == parse_hh_mm_ss(Get(r.cells, "HH_MM_SS", Str(<<>>)))
    IN  IF parsed[1] # None
        THEN [acc EXCEPT !.total_seconds = @ + parsed[1][1], !.valid_count = @ + 1]
        ELSE [acc EXCEPT !.valid_count = @ + 1,
                         !.error_messages = Append(@, <<"Row", r.name + 2, parsed[2][1]>>)]

AvgStepCapMut(acc, r) ==
    LET parsed == parse_hh_mm_ss(Get(r.cells, "HH_MM_SS", Str(<<>>)))
    IN  IF parsed[1] # None
        THEN [acc EXCEPT !.total_seconds = @ + parsed[1][1], !.valid_count = @ + 1]
        ELSE IF parsed[2] # None /\ Len(acc.error_messages) < 5
        THEN [acc EXCEPT !.error_messages = Append(@, <<"Row", r.name + 2, parsed[2][1]>>)]
        ELSE acc

\* lines 312-318: one turn of the loop over df.iterrows()
AvgStep(acc, r) ==
    LET parsed == parse_hh_mm_ss(Get(r.cells, "HH_MM_SS", Str(<<>>)))
    IN  IF parsed[1] # None
        THEN [acc EXCEPT !.total_seconds = @ + parsed[1][1], !.valid_count = @ + 1]
        ELSE IF parsed[2] # None
        THEN [acc EXCEPT !.error_messages = Append(@, <<"Row", r.name + 2, parsed[2][1]>>)]
        ELSE acc

\* lines 308-318: the loop, over the first n rows
RECURSIVE AvgLoop(_, _)
AvgLoop(frame, n) ==
    IF n = 0 THEN [total_seconds |-> 0, valid_count |-> 0, error_messages |-> <<>>]
    ELSE AvgStep(AvgLoop(frame, n - 1), frame[n])

\* lines 320-323: avg_seconds is a float; // and % then int() keep its floor
FormatAverage(total_seconds, valid_count) ==
    LET avg_floor == total_seconds \div valid_count
    IN  Fmt02d(avg_floor \div 60) \o <<":">> \o Fmt02d(avg_floor % 60)

\* lines 307-328
calculate_average_consultation_time(frame) ==
    LET acc == AvgLoop(frame, Len(frame))
    IN  IF acc.valid_count > 0
        THEN [ result         |-> FormatAverage(acc.total_seconds, acc.valid_count),
               valid_count    |-> acc.valid_count,
               error_messages |-> acc.error_messages ]
        ELSE [ result         |-> <<"0", "0", ":", "0", "0">>,
               valid_count    |-> acc.valid_count,
               error_messages |-> Append(acc.error_messages, NoValidEntries) ]

----------------------------------------------------------------------------
(* The score bands: main, lines 142-155, and generate_excel_report, 394-401. *)
(* Scores are in hundredths of a percent; a percentage is the pair           *)
(* <<numerator, denominator>> of an exact fraction.                          *)

HighScore(r) == r.CompletionScore >= 7500
LowScore(r) == r.CompletionScore < 5000

MidScoreMut(r) == r.CompletionScore > 5000 /\ r.CompletionScore < 7500

\* line 396
MidScore(r) == r.CompletionScore >= 5000 /\ r.CompletionScore < 7500

Percent(count, total) == IF total > 0 THEN <<count * 100, total>> ELSE <<0, 1>>

\* lines 142, 150-155
MainBands(report) ==
    LET total_patients    == Len(report)
        high_score_count  == Len(SelectSeq(report, HighScore))
        low_score_count   == Len(SelectSeq(report, LowScore))
        other_score_count == total_patients - high_score_count - low_score_count
    IN  [ total_patients      |-> total_patients,
          high_score_count    |-> high_score_count,
          low_score_count     |-> low_score_count,
          other_score_count   |-> other_score_count,
          high_score_percent  |-> Percent(high_score_count, total_patients),
          low_score_percent   |-> Percent(low_score_count, total_patients),
          other_score_percent |-> Percent(other_score_count, total_patients) ]

\* lines 393-401: the sheets written. The two percentages come from main with
\* the same denominator, so 100 - high - low is taken on the numerators.
generate_excel_report(report, high_score_percent, low_score_percent) ==
    [ patient_report |-> report,
      high_score_df  |-> SelectSeq(report, HighScore),
      mid_score_df   |-> SelectSeq(report, MidScore),
      dashboard      |-> << high_score_percent, low_score_percent,
                            << 100 * high_score_percent[2] - high_score_percent[1]
                                   - low_score_percent[1],
                               high_score_percent[2] >> >> ]

----------------------------------------------------------------------------
(* Inputs *)

MaxParts == 4
MaxRows == 2
MaxDate == 3

\* the parts a duration text is made of
PartTokens ==
    { <<>>, <<"0">>, <<"7">>, <<"5", "9">>, <<"6", "0">>, <<"1", "0", "0">>,
      <<"-", "1">>, <<"x">> }

RECURSIVE JoinColon(_)
JoinColon(parts) ==
    IF Len(parts) = 1 THEN parts[1]
    ELSE parts[1] \o <<":">> \o JoinColon(Tail(parts))

DurationTexts ==
    UNION { { JoinColon(p) : p \in [1..n -> PartTokens] } : n \in 1..MaxParts }

ClockTimes == { Time(h, m, s) : h \in {0, 1, 23}, m \in {0, 59}, s \in {0, 59} }

TimeInputs == {NaN, PyNone} \cup ClockTimes \cup { Str(s) : s \in DurationTexts }

TextValues == { NaN, Str(<<>>), Str(<<"x">>) }

\* the six rubric fields that are neither the name nor the creation date:
\* the first k are filled, the others are missing or empty in turn
OtherFields(k) ==
    LET gap(j) == IF j % 2 = 0 THEN NaN ELSE Str(<<>>)
    IN  ("Age" :> (IF k >= 1 THEN Num(30) ELSE gap(1)))
     @@ ("GenderDisplay" :> (IF k >= 2 THEN Str(<<"F">>) ELSE gap(2)))
     @@ ("ConsultationStatus" :> (IF k >= 3 THEN Str(<<"x">>) ELSE gap(3)))
     @@ ("Symptoms_" :> (IF k >= 4 THEN Str(<<"[", "{">> \o AliasMarker) ELSE gap(4)))
     @@ ("Provisional Diagnosis" :> (IF k >= 5 THEN Str(<<"x">>) ELSE gap(5)))
     @@ ("Advice" :> (IF k >= 6 THEN Str(<<"x">>) ELSE gap(6)))

Record(patient_id, patient_name, created, hh_mm_ss, k) ==
       ("PatientId" :> patient_id)
    @@ ("ConsultationId" :> Str(<<"c">>))
    @@ ("PatientName" :> patient_name)
    @@ ("ConsultationCreatedDate" :> created)
    @@ ("HH_MM_SS" :> hh_mm_ss)
    @@ OtherFields(k)

\* the records a dataset is drawn from
Records ==
    { Record(Str(<<"a", "b">>), Str(<<"a", "n">>), Timestamp(2),
             Str(<<"1", "2", ":", "3", "4">>), 6),
      Record(NaN, Str(<<"N", "a", "b">>), Timestamp(5), Time(1, 2, 3), 3),
      Record(Str(<<"N", "a">>), NaN, Str(<<"3">>), Str(<<>>), 1),
      Record(Str(<<"a", "b">>), Str(<<>>), Str(<<"x">>), NaN, 4),
      Record(Str(<<"b">>), Str(<<"a", "n">>), NaN, Str(<<"5", ":", "9", "9">>), 5),
      Record(Str(<<"a", "b">>), Str(<<"B">>), Timestamp(7),
             Str(<<"1", ":", "0", "2", ":", "0", "3">>), 1),
      Record(Num(12), Str(<<"a", "n">>), Str(<<"2", "T">>), Str(<<"a", "b">>), 2) }

Frames ==
    UNION { { [i \in 1..n |-> [name |-> i - 1, cells |-> f[i]]] :
                f \in [1..n -> Records] } : n \in 0..MaxRows }

Dates == 1..MaxDate

IdQueries == { <<>>, <<"n">>, <<"A", "B">> }
NameQueries == { <<>>, <<"a", "n">>, <<"b">> }

NoCall == [op |-> "none"]

----------------------------------------------------------------------------
(* The engine, called on a dataset. The dataset is the caller's: its        *)
(* creation timestamps may be held as text, which filter_by_date_range      *)
(* coerces itself (line 333). main coerces the column once before, on load  *)
(* (line 122).                                                              *)

Init ==
    /\ df \in Frames
    /\ filtered_df = df
    /\ report_df = None
    /\ avg_time = None
    /\ stats = None
    /\ excel = None
    /\ notes = None
    /\ sidebar = None
    /\ session_state = None
    /\ call = NoCall
    /\ time_input = NaN
    /\ parse_result = None
    /\ row = <<>>
    /\ score_result = None

\* main, line 132: filtered_df = filter_by_date_range(df, start, end), the
\* first call made on a dataset
FilterByDateRange ==
    \E start_date \in Dates, end_date \in Dates :
        LET r == filter_by_date_range(df, start_date, end_date)
        IN  /\ call.op = "none"
            /\ df' = r[1]
            /\ filtered_df' = r[2]
            /\ call' = [op |-> "filter_by_date_range", input |-> df,
                        start_date |-> start_date, end_date |-> end_date]
            /\ report_df' = None
            /\ avg_time' = None
            /\ stats' = None
            /\ excel' = None
            /\ UNCHANGED <<notes, sidebar, session_state, time_input, parse_result, row, score_result>>

\* main, line 135: filtered_df = filter_by_patient_search(filtered_df, id, name),
\* before any report is made
FilterByPatientSearch ==
    \E patient_id \in IdQueries, patient_name \in NameQueries :
        /\ call.op \in {"none", "filter_by_date_range"}
        /\ filtered_df' = filter_by_patient_search(filtered_df, patient_id, patient_name)
        /\ call' = [op |-> "filter_by_patient_search", input |-> filtered_df,
                    patient_id |-> patient_id, patient_name |-> patient_name]
        /\ report_df' = None
        /\ avg_time' = None
        /\ stats' = None
        /\ excel' = None
        /\ UNCHANGED <<notes, sidebar, session_state, df, time_input, parse_result, row, score_result>>

\* main, line 138: report_df = generate_consultation_report(filtered_df)
GenerateConsultationReport ==
    /\ report_df = None
    /\ call.op # "generate_consultation_report"
    /\ report_df' = generate_consultation_report(filtered_df)
    /\ call' = [op |-> "generate_consultation_report", input |-> filtered_df]
    /\ stats' = None
    /\ excel' = None
    /\ UNCHANGED <<notes, sidebar, session_state, df, filtered_df, avg_time, time_input, parse_result, row, score_result>>

\* main, line 147
CalculateAverageConsultationTime ==
    /\ avg_time = None
    /\ avg_time' = Some(calculate_average_consultation_time(filtered_df))
    /\ call' = [op |-> "calculate_average_consultation_time", input |-> filtered_df]
    /\ UNCHANGED <<notes, sidebar, session_state, df, filtered_df, report_df, stats, excel,
                   time_input, parse_result, row, score_result>>

\* main, lines 140-155: the band counts and percentages of a report with rows
SummaryStatistics ==
    /\ report_df # None
    /\ report_df[1] # <<>>
    /\ stats = None
    /\ stats' = Some(MainBands(report_df[1]))
    /\ call' = [op |-> "main", input |-> report_df[1]]
    /\ UNCHANGED <<notes, sidebar, session_state, df, filtered_df, report_df, avg_time, excel,
                   time_input, parse_result, row, score_result>>

\* main, line 200
GenerateExcelReport ==
    /\ report_df # None
    /\ stats # None
    /\ excel = None
    /\ excel' = Some(generate_excel_report(report_df[1], stats[1].high_score_percent,
                                           stats[1].low_score_percent))
    /\ call' = [op |-> "generate_excel_report", input |-> report_df[1]]
    /\ UNCHANGED <<notes, sidebar, session_state, df, filtered_df, report_df, avg_time, stats,
                   time_input, parse_result, row, score_result>>

Next ==
    \/ FilterByDateRange
    \/ FilterByPatientSearch
    \/ GenerateConsultationReport
    \/ CalculateAverageConsultationTime
    \/ SummaryStatistics
    \/ GenerateExcelReport

Spec == Init /\ [][Next]_vars

----------------------------------------------------------------------------
(* parse_hh_mm_ss, called on one value *)

InitParse ==
    /\ time_input \in TimeInputs
    /\ parse_result = None
    /\ row = <<>>
    /\ score_result = None
    /\ df = <<>>
    /\ filtered_df = <<>>
    /\ report_df = None
    /\ avg_time = None
    /\ stats = None
    /\ excel = None
    /\ notes = None
    /\ sidebar = None
    /\ session_state = None
    /\ call = NoCall

ParseHhMmSs ==
    /\ parse_result = None
    /\ parse_result' = parse_hh_mm_ss(time_input)
    /\ call' = [op |-> "parse_hh_mm_ss"]
    /\ UNCHANGED <<notes, sidebar, session_state, time_input, row, score_result, df, filtered_df, report_df,
                   avg_time, stats, excel>>

NextParse == ParseHhMmSs

SpecParse == InitParse /\ [][NextParse]_vars

----------------------------------------------------------------------------
(* calculate_completion_score, called on one row *)

InitScore ==
    /\ \E name \in TextValues \cup {Str(<<"a", "n">>)},
          age \in {NaN, Num(30), Str(<<>>)},
          gender \in TextValues,
          created \in {NaN, Timestamp(2)},
          status \in {PyNone, Str(<<>>), Str(<<"x">>)},
          symptoms \in TextValues \cup {Str(<<"[", "{">> \o AliasMarker)},
          diagnosis \in TextValues,
          advice \in TextValues :
        row = ("PatientName" :> name) @@ ("Age" :> age) @@ ("GenderDisplay" :> gender)
              @@ ("ConsultationCreatedDate" :> created)
              @@ ("ConsultationStatus" :> status) @@ ("Symptoms_" :> symptoms)
              @@ ("Provisional Diagnosis" :> diagnosis) @@ ("Advice" :> advice)
    /\ score_result = None
    /\ time_input = NaN
    /\ parse_result = None
    /\ df = <<>>
    /\ filtered_df = <<>>
    /\ report_df = None
    /\ avg_time = None
    /\ stats = None
    /\ excel = None
    /\ notes = None
    /\ sidebar = None
    /\ session_state = None
    /\ call = NoCall

CalculateCompletionScore ==
    /\ score_result = None
    /\ score_result' = Some(calculate_completion_score(row))
    /\ call' = [op |-> "calculate_completion_score"]
    /\ UNCHANGED <<notes, sidebar, session_state, time_input, parse_result, row, df, filtered_df, report_df,
                   avg_time, stats, excel>>

NextScore == CalculateCompletionScore

SpecScore == InitScore /\ [][NextScore]_vars

----------------------------------------------------------------------------
(* Properties *)

Occurrences(s, x) == Cardinality({i \in 1..Len(s) : s[i] = x})

IndexIn(s, x) == CHOOSE i \in 1..Len(s) : s[i] = x

InOrderOf(s, rubric) ==
    \A i, j \in 1..Len(s) : i < j => IndexIn(rubric, s[i]) < IndexIn(rubric, s[j])

\* C1: the filled and the missing list of a scored record partition the
\* rubric: every rubric field is in exactly one of the two lists, exactly
\* once, no other field is in either, and each list keeps the rubric's order.
C1_ListsPartitionRubric ==
    score_result # None =>
        LET res    == score_result[1]
            rubric == res.fields_to_check
        IN  /\ \A i \in 1..Len(rubric) :
                    Occurrences(res.filled_fields, rubric[i])
                  + Occurrences(res.missing_fields, rubric[i]) = 1
            /\ \A i \in 1..Len(res.filled_fields) :
                    Occurrences(rubric, res.filled_fields[i]) = 1
            /\ \A i \in 1..Len(res.missing_fields) :
                    Occurrences(rubric, res.missing_fields[i]) = 1
            /\ InOrderOf(res.filled_fields, rubric)
            /\ InOrderOf(res.missing_fields, rubric)

\* a record scored with an empty string, a missing cell and the marker text
C1_Witness ==
    /\ score_result # None
    /\ row["Advice"] = Str(<<>>)
    /\ row["Age"] = NaN
    /\ row["Symptoms_"].t = "str" /\ Contains(row["Symptoms_"].s, AliasMarker)
    /\ Occurrences(score_result[1].filled_fields, "Symptoms_") = 1
    /\ Occurrences(score_result[1].missing_fields, "Advice") = 1

\* C2: the completion percentage of a scored record is
\* round(100 * |filled| / |rubric|, 2), the divisor being the size of the
\* rubric that was iterated.
C2_PercentOfRubricSize ==
    score_result # None =>
        LET res == score_result[1]
        IN  /\ Len(res.fields_to_check) >= 1
            /\ res.completion_percentage
                 = Round2(100 * Len(res.filled_fields), Len(res.fields_to_check))

\* a record with three of the eight fields filled scores 37.50
C2_Witness ==
    /\ score_result # None
    /\ Len(score_result[1].filled_fields) = 3
    /\ score_result[1].completion_percentage = 3750

\* C3: parse_hh_mm_ss returns (absent, "Empty or NaN") whenever its input is
\* null (None or NaN) or the empty string.
C3_NullOrEmptyIsEmptyOrNaN ==
    ( /\ parse_result # None
      /\ \/ IsNa(time_input)
         \/ time_input.t = "str" /\ time_input.s = <<>> )
    => parse_result = <<None, Some(<<"Empty or NaN">>)>>

\* C4: for a text whose parts between ':' are all integers, two parts are
\* minutes:seconds with hours 0 and three are hours:minutes:seconds; the
\* result is the total of seconds exactly when no component is negative and
\* minutes and seconds are below 60, "Invalid time values" when that fails,
\* and "Invalid format" for any other number of parts.
C4_ParseNumericParts ==
    ( /\ parse_result # None
      /\ time_input.t \in {"str", "time"}
      /\ \A i \in 1..Len(SplitColon(PyStr(time_input))) :
             IntOk(SplitColon(PyStr(time_input))[i]) )
    => LET text  == PyStr(time_input)
           parts == SplitColon(text)
           n     == Len(parts)
           h     == IF n = 3 THEN IntOf(parts[1]) ELSE 0
           m     == IF n = 3 THEN IntOf(parts[2]) ELSE IntOf(parts[1])
           sec   == IF n = 3 THEN IntOf(parts[3]) ELSE IntOf(parts[2])
           inRange == h >= 0 /\ m >= 0 /\ sec >= 0 /\ m < 60 /\ sec < 60
       IN  IF n \notin {2, 3}
           THEN parse_result = <<None, Some(<<"Invalid format", text>>)>>
           ELSE /\ inRange =>
                    parse_result = <<Some(h * 3600 + m * 60 + sec), None>>
                /\ ~inRange =>
                    parse_result = <<None, Some(<<"Invalid time values", text>>)>>

\* "100:59:0" parsed: three parts, hours above 23 accepted
C4_Witness ==
    /\ time_input = Str(<<"1", "0", "0", ":", "5", "9", ":", "0">>)
    /\ parse_result = <<Some(363540), None>>

Kept(r) == \E j \in 1..Len(filtered_df) : filtered_df[j].name = r.name

\* what the search is claimed to do with one cell: an empty query is no
\* constraint, a missing cell matches no other query
QueryAdmits(value, query) ==
    \/ query = <<>>
    \/ ~IsNa(value) /\ Contains(Lower(PyStr(value)), Lower(query))

\* C5: filter_by_patient_search keeps a record exactly when each non-empty
\* query is found in its field, a missing PatientId (PatientName) never being
\* kept under a non-empty id (name) query.
C5_MissingNeverMatches ==
    call.op = "filter_by_patient_search" =>
        \A i \in 1..Len(call.input) :
            Kept(call.input[i]) <=>
                /\ QueryAdmits(call.input[i].cells["PatientId"], call.patient_id)
                /\ QueryAdmits(call.input[i].cells["PatientName"], call.patient_name)

\* C6: no engine call changes the values of the dataset the caller passed in.
C6_SourceNeverMutated == [][df' = df]_vars

IsMMSS(s) ==
    LET parts == SplitColon(s)
    IN  /\ Len(parts) = 2
        /\ AllDigits(parts[1]) /\ Len(parts[1]) >= 2
        /\ AllDigits(parts[2]) /\ Len(parts[2]) = 2
        /\ DigitsToNat(parts[2]) < 60

\* C7: the duration of every report row is a normalized "MM:SS" text or
\* "Unknown", and it is "Unknown" for a record whose duration
\* parse_hh_mm_ss cannot parse.
C7_DurationNormalized ==
    report_df # None =>
        \A i \in 1..Len(report_df[1]) :
            /\ report_df[1][i].TimeTaken = Unknown \/ IsMMSS(report_df[1][i].TimeTaken)
            /\ parse_hh_mm_ss(Get(filtered_df[i].cells, "HH_MM_SS", Str(<<>>)))[1] = None
                   => report_df[1][i].TimeTaken = Unknown

\* the date a creation timestamp coerces to, None when it does not parse
CreatedDate(r) == DtDate(ToDatetime(r.cells["ConsultationCreatedDate"]))

InRange(r, start_date, end_date) ==
    /\ CreatedDate(r) # None
    /\ start_date <= CreatedDate(r)[1]
    /\ CreatedDate(r)[1] <= end_date

\* C8: filter_by_date_range keeps exactly the records whose creation
\* timestamp, coerced to a date, lies in [start_date, end_date], both ends
\* included; a record whose timestamp does not parse is dropped whatever the
\* two dates are; the kept records keep their relative order.
C8_DateRangeInclusive ==
    call.op = "filter_by_date_range" =>
        /\ \A i \in 1..Len(call.input) :
               Kept(call.input[i])
                   <=> InRange(call.input[i], call.start_date, call.end_date)
        /\ \A i \in 1..Len(call.input) :
               CreatedDate(call.input[i]) = None => ~Kept(call.input[i])
        /\ \A j \in 1..Len(filtered_df) :
               \E i \in 1..Len(call.input) :
                   /\ call.input[i].name = filtered_df[j].name
                   /\ \A c \in DOMAIN filtered_df[j].cells :
                          c # "ConsultationCreatedDate"
                              => filtered_df[j].cells[c] = call.input[i].cells[c]
        /\ \A j, k \in 1..Len(filtered_df) :
               j < k => filtered_df[j].name < filtered_df[k].name

\* a filter that dropped an unparseable timestamp and kept a record dated on
\* end_date, later than start_date
C8_Witness ==
    /\ call.op = "filter_by_date_range"
    /\ call.start_date < call.end_date
    /\ \E i \in 1..Len(call.input) :
           /\ call.input[i].cells["ConsultationCreatedDate"] = Str(<<"x">>)
           /\ ~Kept(call.input[i])
    /\ \E i \in 1..Len(call.input) :
           /\ CreatedDate(call.input[i]) = Some(call.end_date)
           /\ Kept(call.input[i])

ParsedSeconds(r) == parse_hh_mm_ss(Get(r.cells, "HH_MM_SS", Str(<<>>)))[1]

RECURSIVE SumSeconds(_, _)
SumSeconds(frame, S) ==
    IF S = {} THEN 0
    ELSE LET i == CHOOSE x \in S : TRUE
         IN  ParsedSeconds(frame[i])[1] + SumSeconds(frame, S \ {i})

\* C9: the average is taken over the records whose duration parsed: their
\* seconds summed, divided by their count, truncated, shown as zero-padded
\* "MM:SS" with the hours folded into the minutes; with no such record, also
\* for no record at all, the result is "00:00" with a count of 0 and the
\* note that no valid time entry was found.
C9_AverageOverParsed ==
    call.op = "calculate_average_consultation_time" =>
        LET res   == avg_time[1]
            valid == {i \in 1..Len(call.input) : ParsedSeconds(call.input[i]) # None}
            n     == Cardinality(valid)
            avg   == SumSeconds(call.input, valid) \div n
        IN  /\ res.valid_count = n
            /\ n = 0 =>
                   /\ res.result = <<"0", "0", ":", "0", "0">>
                   /\ Occurrences(res.error_messages, NoValidEntries) = 1
            /\ n > 0 =>
                   /\ res.result = Fmt02d(avg \div 60) \o <<":">> \o Fmt02d(avg % 60)
                   /\ Occurrences(res.error_messages, NoValidEntries) = 0

\* the average of 01:02:03 alone, the other record having no duration: "62:03"
C9_Witness ==
    /\ call.op = "calculate_average_consultation_time"
    /\ Len(call.input) = 2
    /\ avg_time[1].valid_count = 1
    /\ avg_time[1].result = <<"6", "2", ":", "0", "3">>

CountRows(rows, Test(_)) == Cardinality({i \in 1..Len(rows) : Test(rows[i])})

----------------------------------------------------------------------------
(* The Notes section of main, lines 216-220 *)

MaxNoteRows == 7

\* line 220: the number of warnings shown before "...and more"
ShownWarnings == 5

\* line 220: error_messages[:5]
FirstMessages(error_messages) ==
    SubSeq(error_messages, 1,
           IF Len(error_messages) < ShownWarnings
           THEN Len(error_messages) ELSE ShownWarnings)

\* lines 218-220: the count, the warnings listed and the "...and more" line
NotesShown(valid_count, error_messages) ==
    [ valid_count |-> valid_count,
      warnings    |-> FirstMessages(error_messages),
      and_more    |-> Len(error_messages) > ShownWarnings ]

\* main, lines 216-220, after the call of line 147
ShowNotes ==
    /\ avg_time # None
    /\ notes = None
    /\ notes' = Some(NotesShown(avg_time[1].valid_count, avg_time[1].error_messages))
    /\ call' = [op |-> "notes", input |-> call.input]
    /\ UNCHANGED <<df, filtered_df, report_df, avg_time, stats, excel,
                   sidebar, session_state, time_input, parse_result, row, score_result>>

\* the records whose durations parse, are missing, or are out of range
NoteRecords ==
    { r \in Records :
        r["HH_MM_SS"] \in { Str(<<"1", "2", ":", "3", "4">>), NaN,
                            Str(<<"5", ":", "9", "9">>) } }

NoteFrames ==
    UNION { { [i \in 1..n |-> [name |-> i - 1, cells |-> f[i]]] :
                f \in [1..n -> NoteRecords] } : n \in 0..MaxNoteRows }

InitNotes ==
    /\ df \in NoteFrames
    /\ filtered_df = df
    /\ report_df = None
    /\ avg_time = None
    /\ stats = None
    /\ excel = None
    /\ notes = None
    /\ sidebar = None
    /\ session_state = None
    /\ call = NoCall
    /\ time_input = NaN
    /\ parse_result = None
    /\ row = <<>>
    /\ score_result = None

NextNotes ==
    \/ CalculateAverageConsultationTime
    \/ ShowNotes

SpecNotes == InitNotes /\ [][NextNotes]_vars

IsRowMessage(m) == m[1] = "Row"

\* C11: the average visits every record; each of the N records either
\* counts in valid_count or adds exactly one "Row <ref>: <reason>" message,
\* so valid_count plus the number of row messages is N; every message is
\* kept, and the Notes show the first 5 of them, with "...and more" exactly
\* when there are more than 5.
C11_EveryRecordAccounted ==
    avg_time # None =>
        LET res   == avg_time[1]
            input == call.input
            rows  == SelectSeq(res.error_messages, IsRowMessage)
            MessagesOf(i) ==
                {j \in 1..Len(res.error_messages) :
                    /\ IsRowMessage(res.error_messages[j])
                    /\ res.error_messages[j][2] = input[i].name + 2}
        IN  /\ res.valid_count + Len(rows) = Len(input)
            /\ \A i \in 1..Len(input) :
                   IF ParsedSeconds(input[i]) # None
                   THEN MessagesOf(i) = {}
                   ELSE /\ Cardinality(MessagesOf(i)) = 1
                        /\ \A j \in MessagesOf(i) :
                               res.error_messages[j][3]
                                 = parse_hh_mm_ss(Get(input[i].cells, "HH_MM_SS",
                                                      Str(<<>>)))[2][1]
            /\ notes # None =>
                   /\ notes[1].valid_count = res.valid_count
                   /\ Len(notes[1].warnings) <= 5
                   /\ Len(notes[1].warnings) = 5 \/ notes[1].warnings = res.error_messages
                   /\ \A j \in 1..Len(notes[1].warnings) :
                          notes[1].warnings[j] = res.error_messages[j]
                   /\ notes[1].and_more <=> Len(res.error_messages) > 5

\* seven records, one with a duration that parses and six without: six
\* messages kept, five shown
C11_Witness ==
    /\ notes # None
    /\ Len(call.input) = 7
    /\ avg_time[1].valid_count = 1
    /\ Len(avg_time[1].error_messages) = 6
    /\ Len(notes[1].warnings) = 5
    /\ notes[1].and_more

----------------------------------------------------------------------------
(* One run of main on an uploaded file: the sidebar, the load, the filters, *)
(* the report (lines 102-138).                                              *)

DataDrivenRangeMut(frame, state) == state

\* lines 125-129: with a timestamp that parsed, the session's range becomes
\* the dates of the least and of the greatest timestamp of the column
DataDrivenRange(frame, state) ==
    LET stamps == { frame[i].cells["ConsultationCreatedDate"].v :
                      i \in { j \in 1..Len(frame) :
                                frame[j].cells["ConsultationCreatedDate"].t = "ts" } }
        least    == CHOOSE v \in stamps : \A w \in stamps : v <= w
        greatest == CHOOSE v \in stamps : \A w \in stamps : v >= w
    IN  IF stamps = {} THEN state
        ELSE [ start_date |-> DtDate(Timestamp(least))[1],
               end_date   |-> DtDate(Timestamp(greatest))[1] ]

InitMain ==
    /\ df \in Frames
    /\ filtered_df = <<>>
    /\ report_df = None
    /\ avg_time = None
    /\ stats = None
    /\ excel = None
    /\ notes = None
    /\ sidebar = None
    /\ session_state = None
    /\ call = [op |-> "start"]
    /\ time_input = NaN
    /\ parse_result = None
    /\ row = <<>>
    /\ score_result = None

\* lines 102-110: the two date inputs, copied to the session state
MainSidebar ==
    \E start_date \in Dates, end_date \in Dates :
        /\ call.op = "start"
        /\ sidebar' = Some([start_date |-> start_date, end_date |-> end_date])
        /\ session_state' = Some([start_date |-> start_date, end_date |-> end_date])
        /\ call' = [op |-> "sidebar"]
        /\ UNCHANGED <<df, filtered_df, report_df, avg_time, stats, excel, notes,
                       time_input, parse_result, row, score_result>>

\* lines 119-129: the column coerced, then the session's range reset from it
MainLoad ==
    /\ call.op = "sidebar"
    /\ df' = CoerceCreated(df)
    /\ session_state' = Some(DataDrivenRange(CoerceCreated(df), session_state[1]))
    /\ call' = [op |-> "load"]
    /\ UNCHANGED <<filtered_df, report_df, avg_time, stats, excel, notes, sidebar,
                   time_input, parse_result, row, score_result>>

\* line 132: the filter is given the session's range
MainFilterByDate ==
    LET r == filter_by_date_range(df, session_state[1].start_date,
                                  session_state[1].end_date)
    IN  /\ call.op = "load"
        /\ df' = r[1]
        /\ filtered_df' = r[2]
        /\ call' = [op |-> "filter_by_date_range", input |-> df,
                    start_date |-> session_state[1].start_date,
                    end_date |-> session_state[1].end_date]
        /\ UNCHANGED <<report_df, avg_time, stats, excel, notes, sidebar, session_state,
                       time_input, parse_result, row, score_result>>

\* line 135
MainSearch == call.op = "filter_by_date_range" /\ FilterByPatientSearch

\* line 138
MainReport == call.op = "filter_by_patient_search" /\ GenerateConsultationReport

NextMain ==
    \/ MainSidebar
    \/ MainLoad
    \/ MainFilterByDate
    \/ MainSearch
    \/ MainReport

SpecMain == InitMain /\ [][NextMain]_vars

\* C12: in main's run, when a creation timestamp of the uploaded dataset
\* parses, the range given to filter_by_date_range is the dataset's least and
\* greatest date, not the range selected in the sidebar, so every record
\* whose timestamp parses passes the filter; the selected range is the one
\* given only when no timestamp parses.
C12_DataRangeOverridesSelection ==
    call.op = "filter_by_date_range" =>
        LET input     == call.input
            parseable == {i \in 1..Len(input) : CreatedDate(input[i]) # None}
        IN  IF parseable # {}
            THEN /\ \A i \in parseable :
                        /\ call.start_date <= CreatedDate(input[i])[1]
                        /\ CreatedDate(input[i])[1] <= call.end_date
                 /\ \E i \in parseable : CreatedDate(input[i])[1] = call.start_date
                 /\ \E i \in parseable : CreatedDate(input[i])[1] = call.end_date
                 /\ \A i \in parseable : Kept(input[i])
                 /\ Len(filtered_df) = Cardinality(parseable)
            ELSE /\ call.start_date = sidebar[1].start_date
                 /\ call.end_date = sidebar[1].end_date

\* the user selected day 1 only; a record of day 3 is kept, one whose
\* timestamp does not parse is dropped
C12_Witness ==
    /\ call.op = "filter_by_date_range"
    /\ sidebar = Some([start_date |-> 1, end_date |-> 1])
    /\ \E i \in 1..Len(call.input) :
           CreatedDate(call.input[i]) = Some(3) /\ Kept(call.input[i])
    /\ \E i \in 1..Len(call.input) :
           CreatedDate(call.input[i]) = None /\ ~Kept(call.input[i])

====
